---- MODULE Spec2Model ----
(***************************************************************************)
(* Model of the ESP32 distance-sensor agent                                *)
(* (semester2/final_exam_embedded/solution/esp32.ino): setup() joins the   *)
(* WiFi and connects to the MQTT broker, loop() samples the HC-SR04,       *)
(* checks the link and either recovers or publishes a JSON record.         *)
(* The program is one thread; the WiFi stack and the broker are            *)
(* collaborators whose status may change between any two program steps.    *)
(***************************************************************************)
EXTENDS Integers, Sequences, FiniteSets, TLC

(* ---------------- program constants ---------------- *)
KEY_NONE == 0
KEY_WEP == 1
KEY_WPA_PSK == 2
KEY_WPA_EAP == 3

WAIT_STEP_MS == 500
WAIT_MAX == 20
MQTT_RETRY_MS == 5000
json_resend_timeout == 1000

mqtt_topic == "garage_sensor"
json_device_name == "ESP32"

(* ---------------- bounds of the model ---------------- *)
\* link-connect failures counted exactly per episode; above it the counters saturate
MaxLinkFails == 2
\* simulated time since the last session-connect attempt saturates here
ClockCap == 5000
\* publish calls recorded per cycle
MaxPubLog == 2
\* diagnostic lines counted per cycle
MaxLogLines == 2
\* sensor samples counted per cycle
MaxCycleSamples == 2

VARIABLES
    pc,                \* position of the single thread of control
    phase,             \* "setup" or "loop": the caller of connectToWiFi / connectToMqtt
    wifi_key,          \* configured auth mode
    wifi_begun,        \* WiFi.begin() has been called (a join is in progress)
    wifi_status,       \* WiFi.status() == WL_CONNECTED
    mqtt_connected,    \* the broker client holds a session
    exit_status_code,
    wait_counter,
    waited_ms,         \* simulated ms spent in the delays of the current connectToWiFi call
    pollSaw,           \* the poll loop of the current call left because it read WL_CONNECTED
    hcsr_value,
    sample,            \* what the sensor returned in the current cycle
    pubLog,            \* mqtt_client.publish calls of the current cycle
    diag,              \* last line on the diagnostic sink
    cycleLogs,         \* diagnostic lines written in the current cycle
    cycleHealth,       \* what the cycle's health check read from the link
    stage,             \* "needLink", "needSession", "ready"
    everLinkOk,        \* a connectToWiFi call has returned 0
    linkCalls,         \* connectToWiFi calls of the current episode
    linkFails,         \* ... of which returned 1
    sinceMqtt,         \* simulated ms since the last connectToMqtt call
    mqttPrev,          \* outcome of the last connectToMqtt call
    sincePub,          \* what happened since the last publish call
    lastPubFailed,     \* the last publish call returned false
    idleMs,            \* simulated ms of inter-cycle delay since the last sample
    cycleSamples       \* sensor samples taken since the last inter-cycle delay

vars == <<pc, phase, wifi_key, wifi_begun, wifi_status, mqtt_connected,
          exit_status_code, wait_counter, waited_ms, pollSaw, hcsr_value, sample,
          pubLog, diag, cycleLogs, cycleHealth, stage, everLinkOk, linkCalls, linkFails,
          sinceMqtt, mqttPrev, sincePub, lastPubFailed, idleMs, cycleSamples>>

(* ---------------- inputs ---------------- *)
\* sensor results in tenths of a centimetre; -1.0 is the driver's "no echo"
SensorTenths == {-10, 4, 5, 420}
NoSample == [finite |-> TRUE, tenths |-> 0]
NaNSample == [finite |-> FALSE, tenths |-> 0]
SensorResults == {[finite |-> TRUE, tenths |-> t] : t \in SensorTenths} \cup {NaNSample}
\* converting a non-finite double to int is undefined: any of these may result
INT_MIN == -2147483647 - 1
NaNOutcomes == {INT_MIN, 0}
RssiValues == {-66, -67, -69, -70, -79, -80, -89, -90, -91}
BrokerCodes == -5 .. 6

(* ---------------- helpers ---------------- *)
Min(a, b) == IF a < b THEN a ELSE b

\* round(): nearest integer, halfway cases away from zero
Round(t) == IF t >= 0 THEN (t + 5) \div 10 ELSE -((-t + 5) \div 10)

\* mutant: the reading is not stored, the previous value stays
DoubleToInt_stale(s) == {hcsr_value}

\* hcsr_value = round(getDistanceCm(...)): the int a sensor result may become
DoubleToInt(s) == IF s.finite THEN {Round(s.tenths)} ELSE NaNOutcomes

\* the JSON document of sendJsonToMqttBroker, as its key/value pairs in order
BuildJson(v) == << <<"device", json_device_name>>, <<"distance_cm", v>> >>

\* mutant: the thresholds taken as inclusive
Classify_inclusive(rssi) ==
    IF rssi >= -67 THEN "Amazing"
    ELSE IF rssi >= -70 THEN "Very Good"
    ELSE IF rssi >= -80 THEN "Okay"
    ELSE IF rssi >= -90 THEN "Not Good"
    ELSE "Unusable"

\* the signal tier printed by connectToWiFi
Classify(rssi) ==
    IF rssi > -67 THEN "Amazing"
    ELSE IF rssi > -70 THEN "Very Good"
    ELSE IF rssi > -80 THEN "Okay"
    ELSE IF rssi > -90 THEN "Not Good"
    ELSE "Unusable"

\* mutant: the last case of the switch is missing
BrokerLabel_short(code) ==
    CASE code = -4 -> "MQTT_CONNECTION_TIMEOUT"
      [] code = -3 -> "MQTT_CONNECTION_LOST"
      [] code = -2 -> "MQTT_CONNECT_FAILED"
      [] code = -1 -> "MQTT_DISCONNECTED"
      [] code = 1 -> "MQTT_CONNECT_BAD_PROTOCOL"
      [] code = 2 -> "MQTT_CONNECT_BAD_CLIENT_ID"
      [] code = 3 -> "MQTT_CONNECT_UNAVAILABLE"
      [] code = 4 -> "MQTT_CONNECT_BAD_CREDENTIALS"
      [] OTHER -> "UNKNOWN"

\* the label printed by connectToMqtt for a broker status code
BrokerLabel(code) ==
    CASE code = -4 -> "MQTT_CONNECTION_TIMEOUT"
      [] code = -3 -> "MQTT_CONNECTION_LOST"
      [] code = -2 -> "MQTT_CONNECT_FAILED"
      [] code = -1 -> "MQTT_DISCONNECTED"
      [] code = 1 -> "MQTT_CONNECT_BAD_PROTOCOL"
      [] code = 2 -> "MQTT_CONNECT_BAD_CLIENT_ID"
      [] code = 3 -> "MQTT_CONNECT_UNAVAILABLE"
      [] code = 4 -> "MQTT_CONNECT_BAD_CREDENTIALS"
      [] code = 5 -> "MQTT_CONNECT_UNAUTHORIZED"
      [] OTHER -> "UNKNOWN"

\* mutant: the link is never examined
healthCheck_blind(status) == 0

healthCheck(status) == IF ~status THEN 1 ELSE 0

\* mutant: the result is reported as success whatever the status
WiFiResult_ok(status) == 0

\* the branch of connectToWiFi on its last status read
WiFiResult(status) == IF status THEN 0 ELSE 1

\* mutant: off by one in the exit test
WaitNext_late(cnt) == IF cnt > WAIT_MAX THEN "wifi_final" ELSE "wifi_poll"

\* the poll loop's exit test
WaitNext(cnt) == IF cnt >= WAIT_MAX THEN "wifi_final" ELSE "wifi_poll"

\* mutant: the call is not repeated on failure
AfterWiFi_once(code) == "mqtt_call"

\* while (exit_status_code) connectToWiFi();
AfterWiFi(code) == IF code # 0 THEN "wifi_call" ELSE "mqtt_call"

\* mutant: the retry loop without its delay
AfterMqtt_nodelay(ph, code) ==
    IF code # 0 THEN "mqtt_call"
    ELSE IF ph = "setup" THEN "sensor_begin" ELSE "loop_delay"

\* mutant: the call is not repeated on failure
AfterMqtt_once(ph, code) == IF ph = "setup" THEN "sensor_begin" ELSE "loop_delay"

\* mutant: after a recovery the loop body starts over at once
AfterMqtt_resample(ph, code) ==
    IF code # 0 THEN "mqtt_delay"
    ELSE IF ph = "setup" THEN "sensor_begin" ELSE "loop_sample"

\* mutant: the retry loop's test inverted
AfterMqtt_inverted(ph, code) ==
    IF code = 0 THEN "mqtt_delay"
    ELSE IF ph = "setup" THEN "sensor_begin" ELSE "loop_delay"

\* mutant: a failed session connect goes back to the link connect
AfterMqtt_relink(ph, code) ==
    IF code # 0 THEN "wifi_call"
    ELSE IF ph = "setup" THEN "sensor_begin" ELSE "loop_delay"

\* while (exit_status_code) { delay(5000); connectToMqtt(); }
AfterMqtt(ph, code) ==
    IF code # 0 THEN "mqtt_delay"
    ELSE IF ph = "setup" THEN "sensor_begin" ELSE "loop_delay"

\* switch (exit_status_code) of loop()
AfterHealth(code) == IF code = 1 THEN "wifi_call" ELSE "loop_send"

\* mutant: a failed publish returns from loop() before the delay
AfterSend_skip(code) == IF code # 0 THEN "loop_sample" ELSE "loop_delay"

\* mutant: a failed publish stops the program
AfterSend_halt(code) == IF code # 0 THEN "halt" ELSE "loop_delay"

\* mutant: a failed publish leads to a new session connect
AfterSend_reconnect(code) == IF code # 0 THEN "mqtt_call" ELSE "loop_delay"

\* mutant: a failed publish is tried again at once
AfterSend_retry(code) == IF code # 0 THEN "loop_send" ELSE "loop_delay"

\* after sendJsonToMqttBroker the switch falls out to the delay
AfterSend(code) == "loop_delay"

\* a line of the diagnostic sink: its text, and the number and the label it reports
Line(text) == [line |-> text, num |-> 0, label |-> ""]

Tick(ms) == Min(sinceMqtt + ms, ClockCap)
Lines(n) == Min(cycleLogs + n, MaxLogLines)

(* ---------------- initial state ---------------- *)
Init ==
    /\ pc = "wifi_call"
    /\ phase = "setup"
    /\ wifi_key \in {KEY_NONE, KEY_WEP, KEY_WPA_PSK, KEY_WPA_EAP}
    /\ wifi_begun = FALSE
    /\ wifi_status = FALSE
    /\ mqtt_connected = FALSE
    /\ exit_status_code = 0
    /\ wait_counter = 0
    /\ waited_ms = 0
    /\ pollSaw = FALSE
    /\ hcsr_value = -1
    /\ sample = NoSample
    /\ pubLog = <<>>
    /\ diag = Line("START")
    /\ cycleLogs = 0
    /\ cycleHealth = "none"
    /\ stage = "needLink"
    /\ everLinkOk = FALSE
    /\ linkCalls = 0
    /\ linkFails = 0
    /\ sinceMqtt = 0
    /\ mqttPrev = "none"
    /\ sincePub = "never"
    /\ lastPubFailed = FALSE
    /\ idleMs = 0
    /\ cycleSamples = 0

(* ---------------- connectToWiFi ---------------- *)
\* entry: WiFi.begin for the two handled auth modes, wait_counter = 0
WiFiBegin ==
    /\ pc = "wifi_call"
    /\ wifi_begun' = (wifi_begun \/ wifi_key \in {KEY_NONE, KEY_WPA_PSK})
    /\ wait_counter' = 0
    /\ waited_ms' = 0
    /\ pollSaw' = FALSE
    /\ linkCalls' = Min(linkCalls + 1, MaxLinkFails + 2)
    /\ diag' = Line("Connecting to WiFi")
    /\ pc' = "wifi_poll"
    /\ UNCHANGED <<phase, wifi_key, wifi_status, mqtt_connected, exit_status_code,
                   hcsr_value, sample, pubLog, cycleLogs, cycleHealth, stage,
                   everLinkOk, linkFails, sinceMqtt, mqttPrev, sincePub, lastPubFailed, idleMs, cycleSamples>>

\* one evaluation of while (WiFi.status() != WL_CONNECTED) and its body
WiFiPoll ==
    /\ pc = "wifi_poll"
    /\ IF wifi_status
       THEN /\ pc' = "wifi_final"
            /\ pollSaw' = TRUE
            /\ UNCHANGED <<wait_counter, waited_ms, sinceMqtt>>
       ELSE /\ wait_counter' = wait_counter + 1
            /\ waited_ms' = waited_ms + WAIT_STEP_MS
            /\ sinceMqtt' = Tick(WAIT_STEP_MS)
            /\ pollSaw' = FALSE
            /\ pc' = WaitNext(wait_counter + 1)
    /\ UNCHANGED <<phase, wifi_key, wifi_begun, wifi_status, mqtt_connected,
                   exit_status_code, hcsr_value, sample, pubLog, diag, cycleLogs,
                   cycleHealth, stage, everLinkOk, linkCalls, linkFails,
                   mqttPrev, sincePub, lastPubFailed, idleMs, cycleSamples>>

\* the status read after the loop, the report, the return (the locals end
\* with the call) and the caller's while test
WiFiFinal ==
    /\ pc = "wifi_final"
    /\ LET code == WiFiResult(wifi_status) IN
       /\ exit_status_code' = code
       /\ IF code = 0
          THEN /\ \E rssi \in RssiValues :
                    diag' = [line |-> "Conected to WiFi", num |-> rssi,
                             label |-> Classify(rssi)]
               /\ stage' = "needSession"
               /\ everLinkOk' = TRUE
               /\ UNCHANGED linkFails
          ELSE /\ diag' = Line("WiFi failed")
               /\ linkFails' = Min(linkFails + 1, MaxLinkFails + 1)
               /\ UNCHANGED <<stage, everLinkOk>>
       /\ pc' = AfterWiFi(code)
    /\ wait_counter' = 0
    /\ waited_ms' = 0
    /\ pollSaw' = FALSE
    /\ cycleLogs' = Lines(2)
    /\ UNCHANGED <<phase, wifi_key, wifi_begun, wifi_status, mqtt_connected,
                   hcsr_value, sample, pubLog, cycleHealth, linkCalls,
                   sinceMqtt, mqttPrev, sincePub, lastPubFailed, idleMs, cycleSamples>>

(* ---------------- connectToMqtt ---------------- *)
\* one mqtt_client.connect: it can succeed over a connected link, and returns
\* true at once when the client still holds a session
ConnectToMqtt ==
    /\ pc = "mqtt_call"
    /\ \E ok \in {FALSE, wifi_status \/ mqtt_connected} :
         LET code == IF ok THEN 0 ELSE 1 IN
         /\ exit_status_code' = code
         /\ IF ok
            THEN /\ mqtt_connected' = TRUE
                 /\ diag' = Line("Connected to MQTT")
                 /\ stage' = IF stage = "needSession" THEN "ready" ELSE stage
                 /\ linkCalls' = 0
                 /\ linkFails' = 0
            ELSE /\ mqtt_connected' = FALSE
                 /\ \E broker_response \in BrokerCodes :
                      diag' = [line |-> "Connection to MQTT broker failed",
                               num |-> broker_response,
                               label |-> BrokerLabel(broker_response)]
                 /\ UNCHANGED <<stage, linkCalls, linkFails>>
         /\ mqttPrev' = IF ok THEN "ok" ELSE "fail"
         /\ pc' = AfterMqtt(phase, code)
    /\ sinceMqtt' = 0
    /\ cycleLogs' = Lines(2)
    /\ UNCHANGED <<phase, wifi_key, wifi_begun, wifi_status, wait_counter,
                   waited_ms, pollSaw, hcsr_value, sample, pubLog, cycleHealth,
                   everLinkOk, sincePub, lastPubFailed, idleMs, cycleSamples>>

\* delay(5000) of the session retry loop
MqttRetryDelay ==
    /\ pc = "mqtt_delay"
    /\ sinceMqtt' = Tick(MQTT_RETRY_MS)
    /\ pc' = "mqtt_call"
    /\ UNCHANGED <<phase, wifi_key, wifi_begun, wifi_status, mqtt_connected,
                   exit_status_code, wait_counter, waited_ms, pollSaw, hcsr_value,
                   sample, pubLog, diag, cycleLogs, cycleHealth, stage,
                   everLinkOk, linkCalls, linkFails, mqttPrev, sincePub, lastPubFailed, idleMs, cycleSamples>>

(* ---------------- setup tail ---------------- *)
SensorBegin ==
    /\ pc = "sensor_begin"
    /\ diag' = Line("HC-SR04 initialized")
    /\ phase' = "loop"
    /\ pc' = "loop_sample"
    /\ UNCHANGED <<wifi_key, wifi_begun, wifi_status, mqtt_connected,
                   exit_status_code, wait_counter, waited_ms, pollSaw, hcsr_value, sample, pubLog,
                   cycleLogs, cycleHealth, stage, everLinkOk, linkCalls,
                   linkFails, sinceMqtt, mqttPrev, sincePub, lastPubFailed, idleMs, cycleSamples>>

(* ---------------- loop ---------------- *)
\* hcsr_value = round(getDistanceCm(_hcsr_distances));
LoopSample ==
    /\ pc = "loop_sample"
    /\ \E s \in SensorResults :
         /\ sample' = s
         /\ hcsr_value' \in DoubleToInt(s)
    /\ pubLog' = <<>>
    /\ cycleLogs' = 0
    /\ cycleHealth' = "none"
    /\ sincePub' = IF sincePub = "delayed" THEN "sampled" ELSE sincePub
    /\ pc' = "loop_health"
    /\ idleMs' = 0
    /\ cycleSamples' = Min(cycleSamples + 1, MaxCycleSamples)
    /\ UNCHANGED <<lastPubFailed, phase, wifi_key, wifi_begun, wifi_status, mqtt_connected,
                   exit_status_code, wait_counter, waited_ms, pollSaw, diag, stage, everLinkOk,
                   linkCalls, linkFails, sinceMqtt, mqttPrev>>

\* exit_status_code = healthCheck(); switch (exit_status_code)
LoopHealth ==
    /\ pc = "loop_health"
    /\ LET code == healthCheck(wifi_status) IN
       /\ exit_status_code' = code
       /\ pc' = AfterHealth(code)
       /\ IF AfterHealth(code) = "wifi_call"
          THEN /\ diag' = Line("lost connection to WiFi")
               /\ cycleLogs' = Lines(1)
               /\ stage' = "needLink"
               /\ linkCalls' = 0
               /\ linkFails' = 0
          ELSE UNCHANGED <<diag, cycleLogs, stage, linkCalls, linkFails>>
    /\ cycleHealth' = IF wifi_status THEN "ok" ELSE "lost"
    /\ UNCHANGED <<phase, wifi_key, wifi_begun, wifi_status, mqtt_connected,
                   wait_counter, waited_ms, pollSaw, hcsr_value, sample, pubLog, everLinkOk,
                   sinceMqtt, mqttPrev, sincePub, lastPubFailed, idleMs, cycleSamples>>

\* exit_status_code = sendJsonToMqttBroker(); and the report of the result;
\* mqtt_client.publish returns false without a session
LoopSend ==
    /\ pc = "loop_send"
    /\ \E data_sent \in {FALSE, mqtt_connected} :
         LET code == IF data_sent THEN 0 ELSE 1 IN
         /\ exit_status_code' = code
         /\ pubLog' = IF Len(pubLog) < MaxPubLog
                      THEN Append(pubLog, [topic |-> mqtt_topic,
                                           payload |-> BuildJson(hcsr_value),
                                           link |-> wifi_status,
                                           session |-> mqtt_connected,
                                           sent |-> data_sent])
                      ELSE pubLog
         /\ diag' = Line(IF data_sent THEN "JSON data sent"
                             ELSE "JSON data could not be sent")
         /\ lastPubFailed' = ~data_sent
         /\ pc' = AfterSend(code)
    /\ cycleLogs' = Lines(2)
    /\ sincePub' = "just"
    /\ UNCHANGED <<idleMs, cycleSamples, phase, wifi_key, wifi_begun, wifi_status, mqtt_connected,
                   wait_counter, waited_ms, pollSaw, hcsr_value, sample, cycleHealth, stage,
                   everLinkOk, linkCalls, linkFails, sinceMqtt, mqttPrev>>

\* delay(json_resend_timeout);
LoopDelay ==
    /\ pc = "loop_delay"
    /\ sinceMqtt' = Tick(json_resend_timeout)
    /\ sincePub' = IF sincePub = "just" THEN "delayed" ELSE sincePub
    /\ pc' = "loop_sample"
    /\ idleMs' = Min(idleMs + json_resend_timeout, ClockCap)
    /\ cycleSamples' = 0
    /\ UNCHANGED <<lastPubFailed, phase, wifi_key, wifi_begun, wifi_status, mqtt_connected,
                   exit_status_code, wait_counter, waited_ms, pollSaw, hcsr_value, sample, pubLog,
                   diag, cycleLogs, cycleHealth, stage, everLinkOk, linkCalls,
                   linkFails, mqttPrev>>

(* ---------------- collaborators ---------------- *)
\* the join started by WiFi.begin completes
LinkUp ==
    /\ wifi_begun
    /\ ~wifi_status
    /\ wifi_status' = TRUE
    /\ UNCHANGED <<pc, phase, wifi_key, wifi_begun, mqtt_connected,
                   exit_status_code, wait_counter, waited_ms, pollSaw, hcsr_value, sample, pubLog,
                   diag, cycleLogs, cycleHealth, stage, everLinkOk, linkCalls,
                   linkFails, sinceMqtt, mqttPrev, sincePub, lastPubFailed, idleMs, cycleSamples>>

LinkDrop ==
    /\ wifi_status
    /\ wifi_status' = FALSE
    /\ UNCHANGED <<pc, phase, wifi_key, wifi_begun, mqtt_connected,
                   exit_status_code, wait_counter, waited_ms, pollSaw, hcsr_value, sample, pubLog,
                   diag, cycleLogs, cycleHealth, stage, everLinkOk, linkCalls,
                   linkFails, sinceMqtt, mqttPrev, sincePub, lastPubFailed, idleMs, cycleSamples>>

\* the broker session ends while the program is elsewhere
SessionDrop ==
    /\ mqtt_connected
    /\ mqtt_connected' = FALSE
    /\ UNCHANGED <<pc, phase, wifi_key, wifi_begun, wifi_status,
                   exit_status_code, wait_counter, waited_ms, pollSaw, hcsr_value, sample, pubLog,
                   diag, cycleLogs, cycleHealth, stage, everLinkOk, linkCalls,
                   linkFails, sinceMqtt, mqttPrev, sincePub, lastPubFailed, idleMs, cycleSamples>>

Next ==
    \/ WiFiBegin
    \/ WiFiPoll
    \/ WiFiFinal
    \/ ConnectToMqtt
    \/ MqttRetryDelay
    \/ SensorBegin
    \/ LoopSample
    \/ LoopHealth
    \/ LoopSend
    \/ LoopDelay
    \/ LinkUp
    \/ LinkDrop
    \/ SessionDrop

\* a step of the program itself: a statement of setup() or loop()
Step ==
    \/ WiFiBegin
    \/ WiFiPoll
    \/ WiFiFinal
    \/ ConnectToMqtt
    \/ MqttRetryDelay
    \/ SensorBegin
    \/ LoopSample
    \/ LoopHealth
    \/ LoopSend
    \/ LoopDelay

Spec == Init /\ [][Next]_vars

\* a connectToMqtt call that the broker accepts
ConnectAccepted == ConnectToMqtt /\ exit_status_code' = 0

\* the single thread keeps running (every call returns), and a broker that is
\* asked again and again over a usable link accepts in the end
\* the configuration of the source: wifi_key = KEY_WPA_PSK
LiveInit == Init /\ wifi_key = KEY_WPA_PSK

LiveSpec == LiveInit /\ [][Next]_vars /\ WF_vars(Step) /\ SF_vars(ConnectAccepted)

(***************************************************************************)
(* Properties                                                              *)
(***************************************************************************)
RecoveryPcs == {"wifi_call", "wifi_poll", "wifi_final", "mqtt_call", "mqtt_delay"}

\* v is t tenths rounded to the nearest integer, halves away from zero
IsRounded(t, v) ==
    IF t >= 0 THEN 10 * v - 5 <= t /\ t < 10 * v + 5
    ELSE 10 * v - 5 < t /\ t <= 10 * v + 5

\* a reading is valid when it is finite and not below zero
Valid(s) == s.finite /\ s.tenths >= 0

\* C1: every publish call is made while the link is connected and the broker
\* client reports the session connected at the moment of the call.
C1_PublishGated ==
    \A i \in 1 .. Len(pubLog) : pubLog[i].link /\ pubLog[i].session

\* C2: a cycle whose health check reads the link as not connected goes to the
\* link recovery and makes no publish call.
C2_HealthRecovery ==
    cycleHealth = "lost" =>
        /\ pc \notin {"loop_health", "loop_send", "sensor_begin"}
        /\ pubLog = <<>>
        /\ (stage # "ready" => pc \in RecoveryPcs)

C2_Witness ==
    /\ cycleHealth = "lost"
    /\ pc = "wifi_call"
    /\ phase = "loop"
    /\ sincePub = "sampled"

\* C3: when the link-retry loop hands over to session connect, it has made
\* exactly one more connectToWiFi call than the number of calls that failed,
\* whatever that number is.
C3_LinkRetryCount ==
    pc \in {"mqtt_call", "mqtt_delay"} => linkCalls = linkFails + 1

C3_Witness ==
    /\ pc = "mqtt_call"
    /\ phase = "setup"
    /\ mqttPrev = "none"
    /\ linkFails = MaxLinkFails
    /\ linkCalls = MaxLinkFails + 1

C5_AnyConsecutiveSpaced ==
    pc = "mqtt_call" /\ mqttPrev # "none" => sinceMqtt >= 5000

\* C5 amended: a connectToMqtt call that follows a failed one (a retry, at
\* startup or in recovery) starts at least 5000 ms after it.
C5_RetrySpaced ==
    pc = "mqtt_call" /\ mqttPrev = "fail" => sinceMqtt >= 5000

C5_Witness ==
    /\ pc = "mqtt_call"
    /\ phase = "loop"
    /\ mqttPrev = "fail"
    /\ sinceMqtt >= 5000

\* C6: a connected session implies an earlier successful connectToWiFi, and
\* session connect is attempted only after the link connect of the same
\* episode (startup or recovery) has returned success.
C6_SessionNeedsLink ==
    /\ mqtt_connected => everLinkOk
    /\ pc \in {"mqtt_call", "mqtt_delay"} => stage = "needSession"

C6_Witness ==
    /\ mqtt_connected
    /\ phase = "loop"
    /\ cycleHealth = "lost"
    /\ stage = "ready"
    /\ pc = "loop_delay"

\* C7: from the detection of a link loss until a link connect and then a
\* session connect have succeeded, the program stays in the recovery loops
\* and makes no publish call, whatever the broker client reports.
C7_RederiveSession ==
    /\ stage # "ready" => pc \in RecoveryPcs /\ pubLog = <<>>
    /\ pc = "loop_send" => stage = "ready" /\ cycleHealth = "ok"

C7_Witness ==
    /\ phase = "loop"
    /\ stage = "needLink"
    /\ pc = "wifi_poll"
    /\ mqtt_connected

\* C8: a cycle whose reading is invalid ends with no publish call and exactly
\* one diagnostic line.
C8_InvalidSkipped ==
    pc = "loop_delay" /\ ~Valid(sample) =>
        /\ pubLog = <<>>
        /\ (cycleHealth = "ok" => cycleLogs = 1)

\* C9: a cycle whose health check passes makes exactly one publish call, on
\* the configured topic, whose payload is the device name and the rounded
\* reading of that same cycle.
C9_PublishOnceFresh ==
    /\ cycleHealth = "ok" /\ pc \in {"loop_delay", "loop_sample"} => Len(pubLog) = 1
    /\ \A i \in 1 .. Len(pubLog) :
         /\ pubLog[i].topic = mqtt_topic
         /\ Len(pubLog[i].payload) = 2
         /\ pubLog[i].payload[1] = <<"device", json_device_name>>
         /\ pubLog[i].payload[2][1] = "distance_cm"
         /\ pubLog[i].payload[2][2] = hcsr_value
         /\ (sample.finite => IsRounded(sample.tenths, pubLog[i].payload[2][2]))
         /\ (sample.finite /\ sample.tenths = 420 => pubLog[i].payload[2][2] = 42)

C9_Witness ==
    /\ pc = "loop_delay"
    /\ sample = [finite |-> TRUE, tenths |-> 420]
    /\ Len(pubLog) = 1
    /\ pubLog[1].payload = << <<"device", "ESP32">>, <<"distance_cm", 42>> >>
    /\ pubLog[1].topic = "garage_sensor"
    /\ pubLog[1].sent

\* C10: a cycle makes at most one publish call, and a publish call is made
\* only after the delay and the sample that follow the previous one.
C10_NoRetryInCycle ==
    /\ Len(pubLog) <= 1
    /\ pc = "loop_send" => pubLog = <<>> /\ sincePub \in {"never", "sampled"}

C10_Witness ==
    /\ pc = "loop_send"
    /\ sincePub = "sampled"
    /\ lastPubFailed

\* C11: every iteration of loop() after the first starts at least 1000 ms
\* after the previous iteration's work ended, whether that iteration
\* published with success, failed to publish or ran the recovery.
C11_CycleDelay ==
    pc = "loop_sample" /\ cycleHealth # "none" => idleMs >= 1000

C11_Witness ==
    /\ pc = "loop_sample"
    /\ cycleHealth = "lost"
    /\ stage = "ready"
    /\ idleMs = 1000

\* C12: every cycle of loop() samples the sensor exactly once, also when its
\* health check fails and the recovery runs, and a publish call is made only
\* in a cycle whose health check passed.
C12_SampleEveryCycle ==
    /\ phase = "loop" /\ pc # "loop_sample" => cycleSamples = 1
    /\ pubLog # <<>> => cycleHealth = "ok"

C12_Witness ==
    /\ phase = "loop"
    /\ pc = "loop_delay"
    /\ cycleHealth = "lost"
    /\ cycleSamples = 1
    /\ pubLog = <<>>

\* C13: in every reachable state the program has a next statement to run,
\* whatever the link, the broker and the sensor have answered so far.
C13_NoTerminalState == ENABLED Step

C13_Witness ==
    /\ phase = "loop"
    /\ pc = "mqtt_delay"
    /\ lastPubFailed
    /\ ~wifi_status
    /\ ~mqtt_connected
    /\ sample = NaNSample

\* C14: if the link is eventually connected for good (and the broker accepts
\* in the end, as LiveSpec states), the program leaves both retry loops, stays
\* in the steady-state loop from some point on, and from then on every cycle
\* makes a publish call, again and again.
C14_ReachesSteadyState ==
    <>[]wifi_status =>
        /\ <>[](/\ phase = "loop"
                /\ stage = "ready"
                /\ pc \in {"loop_sample", "loop_health", "loop_send", "loop_delay"}
                /\ (pc = "loop_delay" => Len(pubLog) = 1))
        /\ []<>(pc = "loop_delay" /\ sincePub = "just")

C14_Witness ==
    /\ phase = "loop"
    /\ stage = "ready"
    /\ cycleHealth = "ok"
    /\ pc = "loop_delay"
    /\ Len(pubLog) = 1
    /\ wifi_status
    /\ sincePub = "just"

\* C15: the tier reported with a signal strength s is exactly one of five,
\* Amazing iff s > -67, Very Good iff -70 < s <= -67, Okay iff -80 < s <= -70,
\* Not Good iff -90 < s <= -80, Unusable iff s <= -90.
C15_Classifier ==
    diag.line = "Conected to WiFi" =>
        /\ diag.label \in {"Amazing", "Very Good", "Okay", "Not Good", "Unusable"}
        /\ (diag.label = "Amazing") = (diag.num > -67)
        /\ (diag.label = "Very Good") = (diag.num <= -67 /\ diag.num > -70)
        /\ (diag.label = "Okay") = (diag.num <= -70 /\ diag.num > -80)
        /\ (diag.label = "Not Good") = (diag.num <= -80 /\ diag.num > -90)
        /\ (diag.label = "Unusable") = (diag.num <= -90)

C15_Witness ==
    /\ diag.line = "Conected to WiFi"
    /\ diag.num = -67
    /\ diag.label = "Very Good"

\* the status codes of the broker client and their labels, as the claim lists them
C16_Table ==
    { <<-4, "MQTT_CONNECTION_TIMEOUT">>, <<-3, "MQTT_CONNECTION_LOST">>,
      <<-2, "MQTT_CONNECT_FAILED">>, <<-1, "MQTT_DISCONNECTED">>,
      <<1, "MQTT_CONNECT_BAD_PROTOCOL">>, <<2, "MQTT_CONNECT_BAD_CLIENT_ID">>,
      <<3, "MQTT_CONNECT_UNAVAILABLE">>, <<4, "MQTT_CONNECT_BAD_CREDENTIALS">>,
      <<5, "MQTT_CONNECT_UNAUTHORIZED">> }

\* C16: the label reported with a failed session connect is the one the table
\* gives for the broker's status code, and UNKNOWN for every code not in it.
C16_BrokerTable ==
    diag.line = "Connection to MQTT broker failed" =>
        IF \E p \in C16_Table : p[1] = diag.num
        THEN <<diag.num, diag.label>> \in C16_Table
        ELSE diag.label = "UNKNOWN"

C16_Witness ==
    /\ diag.line = "Connection to MQTT broker failed"
    /\ exit_status_code = 1
    /\ diag.num = 5
    /\ diag.label = "MQTT_CONNECT_UNAUTHORIZED"

\* C17: with auth mode WEP or WPA-EAP a link connect fails at once: the poll
\* loop is never entered and the call is not repeated.
C17_UnsupportedFailsFast ==
    wifi_key \in {KEY_WEP, KEY_WPA_EAP} =>
        /\ pc # "wifi_poll"
        /\ wait_counter = 0
        /\ linkCalls <= 1

\* C18: in loop() a session connect runs only in a cycle whose health check
\* read the link as lost; a cycle whose health check passed goes on to one
\* publish call, which fails when the session is gone.
C18_SessionOnlyAfterLinkLoss ==
    /\ phase = "loop" /\ pc \in {"mqtt_call", "mqtt_delay"} => cycleHealth = "lost"
    /\ cycleHealth = "ok" => pc \in {"loop_send", "loop_delay", "loop_sample"}
    /\ cycleHealth = "ok" /\ pc # "loop_send" => Len(pubLog) = 1
    /\ \A i \in 1 .. Len(pubLog) : ~pubLog[i].session => ~pubLog[i].sent

C18_Witness ==
    /\ pc = "loop_send"
    /\ cycleHealth = "ok"
    /\ wifi_status
    /\ ~mqtt_connected
    /\ lastPubFailed
    /\ sincePub = "sampled"
    /\ mqttPrev = "ok"

\* C19: from inside a session-connect retry loop the program goes nowhere but
\* on in that loop, or out of it after a connect that succeeded; a link
\* connect is entered only from the health check (or repeated by its own
\* retry loop).
C19_SessionRetryIgnoresLink ==
    [][/\ pc \in {"mqtt_call", "mqtt_delay"} =>
            /\ pc' \in {"mqtt_call", "mqtt_delay", "sensor_begin", "loop_delay"}
            /\ (pc' \in {"sensor_begin", "loop_delay"} => exit_status_code' = 0)
       /\ pc # "wifi_call" /\ pc' = "wifi_call" => pc \in {"loop_health", "wifi_final"}
      ]_vars

C19_Witness ==
    /\ pc = "mqtt_call"
    /\ mqttPrev = "fail"
    /\ stage = "needSession"
    /\ ~wifi_status
    /\ sinceMqtt >= 5000

TypeOK ==
    /\ pc \in {"wifi_call", "wifi_poll", "wifi_final", "mqtt_call", "mqtt_delay",
               "sensor_begin", "loop_sample", "loop_health", "loop_send", "loop_delay"}
    /\ phase \in {"setup", "loop"}
    /\ wait_counter \in 0 .. WAIT_MAX
    /\ exit_status_code \in {0, 1}
    /\ sinceMqtt \in 0 .. ClockCap
    /\ Len(pubLog) <= MaxPubLog
====
